---- MODULE Spec2Model ----
(***************************************************************************)
(* Memory consolidation engine of memory_service: the reflection scheduler *)
(* (services/scheduler.py), the message ledger (database/), and the        *)
(* markdown memory store and reflection agent                              *)
(* (agents/reflection_agent.py).                                           *)
(*                                                                         *)
(* Text is modelled as a sequence of one-character strings, so that        *)
(* splitting, stripping, joining and matching are computed as Python       *)
(* computes them.                                                          *)
(***************************************************************************)
EXTENDS Integers, Sequences, FiniteSets, TLC

(***************************************************************************)
(* Characters and Python str methods                                       *)
(***************************************************************************)

\* The backtick character: a TLA+ string cannot hold one, so "~" stands for it.
BQ == "~"

\* The characters of the model, in code point order (str comparison, sorted()).
Chars ==
    << "\n", " ", "!", "\"", "#", "(", ")", ",", "-", "1", "2", ":",
       "A", "B", "C", "D", "E", "F", "G", "H", "I", "J", "K", "L", "M",
       "N", "O", "P", "Q", "R", "S", "T", "U", "V", "W", "X", "Y", "Z",
       "[", "\\", "]", "_", BQ,
       "a", "b", "c", "d", "e", "f", "g", "h", "i", "j", "k", "l", "m",
       "n", "o", "p", "q", "r", "s", "t", "u", "v", "w", "x", "y", "z",
       "{", "}" >>

Ord(c) == CHOOSE i \in 1..Len(Chars) : Chars[i] = c

IsUpper(c) == Ord(c) >= Ord("A") /\ Ord(c) <= Ord("Z")

IsLower(c) == Ord(c) >= Ord("a") /\ Ord(c) <= Ord("z")

\* The distance in Chars between a letter and its other case.
CaseGap == Ord("a") - Ord("A")

LowerChar(c) == IF IsUpper(c) THEN Chars[Ord(c) + CaseGap] ELSE c

UpperChar(c) == IF IsLower(c) THEN Chars[Ord(c) - CaseGap] ELSE c

\* str.lower()
Lower(s) == [i \in 1..Len(s) |-> LowerChar(s[i])]

\* str.isspace() for one character
IsSpace(c) == c \in {" ", "\n"}

\* s[i:] with a 0-based start, as a Python slice
From(s, i) == SubSeq(s, i + 1, Len(s))

\* str.startswith(p)
StartsWith(s, p) == Len(s) >= Len(p) /\ SubSeq(s, 1, Len(p)) = p

\* c in s
Contains(s, c) == \E i \in 1..Len(s) : s[i] = c

\* str.strip(chars): drop leading and trailing characters that are in cs
StripChars(s, cs) ==
    LET keep == {i \in 1..Len(s) : s[i] \notin cs}
    IN  IF keep = {} THEN << >>
        ELSE LET lo == CHOOSE i \in keep : \A j \in keep : i <= j
                 hi == CHOOSE i \in keep : \A j \in keep : i >= j
             IN  SubSeq(s, lo, hi)

\* str.strip()
Strip(s) == StripChars(s, {" ", "\n"})

\* str.split("\n")
RECURSIVE SplitLines(_)
SplitLines(s) ==
    LET nl == {i \in 1..Len(s) : s[i] = "\n"}
    IN  IF nl = {} THEN << s >>
        ELSE LET k == CHOOSE i \in nl : \A j \in nl : i <= j
             IN  << SubSeq(s, 1, k - 1) >> \o SplitLines(From(s, k))

\* "\n".join(lines)
RECURSIVE JoinLines(_)
JoinLines(lines) ==
    IF lines = << >> THEN << >>
    ELSE IF Len(lines) = 1 THEN lines[1]
    ELSE lines[1] \o << "\n" >> \o JoinLines(Tail(lines))

\* a < b for str
RECURSIVE StrLess(_, _)
StrLess(a, b) ==
    IF b = << >> THEN FALSE
    ELSE IF a = << >> THEN TRUE
    ELSE IF a[1] = b[1] THEN StrLess(Tail(a), Tail(b))
    ELSE Ord(a[1]) < Ord(b[1])

\* str.replace("_", " ")
ReplaceUnderscore(s) == [i \in 1..Len(s) |-> IF s[i] = "_" THEN " " ELSE s[i]]

\* str.title(): a letter that follows a non-letter is upper-cased, the others lowered
IsAlpha(c) == IsUpper(c) \/ IsLower(c)

TitleCase(s) ==
    [i \in 1..Len(s) |->
        IF i = 1 \/ ~IsAlpha(s[i - 1]) THEN UpperChar(s[i]) ELSE LowerChar(s[i])]

(***************************************************************************)
(* MemoryManager (agents/reflection_agent.py): the markdown memory files   *)
(***************************************************************************)

personal_info == << "p", "e", "r", "s", "o", "n", "a", "l", "_", "i", "n", "f", "o" >>

preferences == << "p", "r", "e", "f", "e", "r", "e", "n", "c", "e", "s" >>

goals == << "g", "o", "a", "l", "s" >>

activities == << "a", "c", "t", "i", "v", "i", "t", "i", "e", "s" >>

habits == << "h", "a", "b", "i", "t", "s" >>

experiences == << "e", "x", "p", "e", "r", "i", "e", "n", "c", "e", "s" >>

relationships == << "r", "e", "l", "a", "t", "i", "o", "n", "s", "h", "i", "p", "s" >>

work_life == << "w", "o", "r", "k", "_", "l", "i", "f", "e" >>

opinions == << "o", "p", "i", "n", "i", "o", "n", "s" >>

knowledge == << "k", "n", "o", "w", "l", "e", "d", "g", "e" >>

CATEGORIES ==
    << personal_info, preferences, goals, activities, habits,
       experiences, relationships, work_life, opinions, knowledge >>

\* The key None of a dict[Optional[str], list[str]]; no str equals it.
NoneKey == << "None" >>

\* A dict is a sequence of [key, val] entries in insertion order.
HasKey(d, k) == \E i \in 1..Len(d) : d[i].key = k

Get(d, k) == d[CHOOSE i \in 1..Len(d) : d[i].key = k].val

\* d[k] = v
Put(d, k, v) ==
    IF HasKey(d, k)
    THEN [i \in 1..Len(d) |-> IF d[i].key = k THEN [key |-> k, val |-> v] ELSE d[i]]
    ELSE Append(d, [key |-> k, val |-> v])

\* if k not in d: d[k] = []
WithBucket(d, k) == IF HasKey(d, k) THEN d ELSE Append(d, [key |-> k, val |-> << >>])

\* d[k].append(x)
AppendTo(d, k, x) == Put(d, k, Append(Get(d, k), x))

\* the values of d, concatenated: for facts in d.values(): all.extend(facts)
RECURSIVE AllValues(_)
AllValues(d) == IF d = << >> THEN << >> ELSE d[1].val \o AllValues(Tail(d))

SubMarker == << "#", "#", " " >>

FactMarker == << "-", " " >>

\* The loop of read_category over the lines of the file.
RECURSIVE ReadLines(_, _, _)
ReadLines(lines, result, current) ==
    IF lines = << >> THEN result
    ELSE LET line == Strip(lines[1])
         IN  IF StartsWith(line, SubMarker)
             THEN LET sub == Strip(From(line, 3))
                  IN  ReadLines(Tail(lines), WithBucket(result, sub), sub)
             ELSE IF StartsWith(line, FactMarker)
             THEN ReadLines(Tail(lines),
                            AppendTo(WithBucket(result, current), current, line),
                            current)
             ELSE ReadLines(Tail(lines), result, current)

\* read_category: the file's text parsed into {subcategory: [facts]}
read_category(content) ==
    ReadLines(SplitLines(content), << [key |-> NoneKey, val |-> << >>] >>, NoneKey)

\* sorted(): insertion of one entry into a list sorted by key
RECURSIVE InsertSorted(_, _)
InsertSorted(e, d) ==
    IF d = << >> THEN << e >>
    ELSE IF StrLess(e.key, d[1].key) THEN << e >> \o d
    ELSE << d[1] >> \o InsertSorted(e, Tail(d))

\* sorted((k, v) for k, v in data.items() if k is not None)
RECURSIVE SortedNamed(_)
SortedNamed(d) ==
    IF d = << >> THEN << >>
    ELSE IF d[1].key = NoneKey THEN SortedNamed(Tail(d))
    ELSE InsertSorted(d[1], SortedNamed(Tail(d)))

\* The lines of the named subcategories, in sorted order.
RECURSIVE NamedLines(_)
NamedLines(d) ==
    IF d = << >> THEN << >>
    ELSE (IF d[1].val # << >>
          THEN << SubMarker \o d[1].key >> \o d[1].val \o << << >> >>
          ELSE << >>)
         \o NamedLines(Tail(d))

\* category.replace("_", " ").title()
Title(category) == TitleCase(ReplaceUnderscore(category))

\* A writer that keeps the named subcategories in the order of the dict.
write_category_unsorted(category, data) ==
    LET head == << << "#", " " >> \o Title(category) >>
        top  == IF HasKey(data, NoneKey) /\ Get(data, NoneKey) # << >>
                THEN Get(data, NoneKey) \o << << >> >>
                ELSE << >>
        lines == head \o top \o NamedLines(SelectSeq(data, LAMBDA e : e.key # NoneKey))
    IN  Strip(JoinLines(lines)) \o << "\n" >>

\* write_category: the text written to the category's file
write_category(category, data) ==
    LET head == << << "#", " " >> \o Title(category) >>
        top  == IF HasKey(data, NoneKey) /\ Get(data, NoneKey) # << >>
                THEN Get(data, NoneKey) \o << << >> >>
                ELSE << >>
        lines == head \o top \o NamedLines(SortedNamed(data))
    IN  Strip(JoinLines(lines)) \o << "\n" >>

\* _initialize_files: the text of a file created for a category
InitialFile(category) == << "#", " " >> \o Title(category) \o << "\n" >>

\* re.sub(r'\(.*?\)', '', s): "." does not match a line break
RECURSIVE RemoveParens(_)
RemoveParens(s) ==
    LET Close(i) == {j \in (i + 1)..Len(s) : s[j] = ")"}
        First(S) == CHOOSE j \in S : \A k \in S : j <= k
        opens == {i \in 1..Len(s) :
                    /\ s[i] = "("
                    /\ Close(i) # {}
                    /\ \A k \in (i + 1)..(First(Close(i)) - 1) : s[k] # "\n"}
    IN  IF opens = {} THEN s
        ELSE LET i == First(opens)
                 j == First(Close(i))
             IN  SubSeq(s, 1, i - 1) \o RemoveParens(From(s, j))

\* re.sub(r'\(.*?\)', '', fact).lower().strip("- ").strip()
Clean(fact) == Strip(StripChars(Lower(RemoveParens(fact)), {"-", " "}))

\* The length of the common run of a from i and b from j.
RECURSIVE CommonRun(_, _, _, _)
CommonRun(a, b, i, j) ==
    IF i <= Len(a) /\ j <= Len(b) /\ a[i] = b[j]
    THEN 1 + CommonRun(a, b, i + 1, j + 1)
    ELSE 0

\* SequenceMatcher.find_longest_match: the longest common block, the earliest
\* in a and then the earliest in b among the longest.
LongestMatch(a, b) ==
    LET blocks == {ij \in (1..Len(a)) \X (1..Len(b)) : a[ij[1]] = b[ij[2]]}
        Size(ij) == CommonRun(a, b, ij[1], ij[2])
        Better(p, q) ==
            \/ Size(p) > Size(q)
            \/ Size(p) = Size(q) /\ p[1] < q[1]
            \/ Size(p) = Size(q) /\ p[1] = q[1] /\ p[2] <= q[2]
    IN  IF blocks = {} THEN [i |-> 1, j |-> 1, size |-> 0]
        ELSE LET best == CHOOSE p \in blocks : \A q \in blocks : Better(p, q)
             IN  [i |-> best[1], j |-> best[2], size |-> Size(best)]

\* SequenceMatcher.get_matching_blocks: the total size of the matching blocks
RECURSIVE MatchSize(_, _)
MatchSize(a, b) ==
    IF a = << >> \/ b = << >> THEN 0
    ELSE LET m == LongestMatch(a, b)
         IN  IF m.size = 0 THEN 0
             ELSE m.size
                  + MatchSize(SubSeq(a, 1, m.i - 1), SubSeq(b, 1, m.j - 1))
                  + MatchSize(From(a, m.i + m.size - 1), From(b, m.j + m.size - 1))

\* The duplicate threshold of is_duplicate, in hundredths.
ThresholdPct == 85

\* SequenceMatcher(None, a, b).ratio() >= threshold; the ratio is
\* 2 * matches / (len(a) + len(b)), and 1.0 when both are empty.
RatioAtLeast(a, b) ==
    IF Len(a) + Len(b) = 0 THEN TRUE
    ELSE 2 * MatchSize(a, b) * 100 >= ThresholdPct * (Len(a) + Len(b))

\* is_duplicate(existing_facts, new_fact)
is_duplicate(existing_facts, new_fact) ==
    \E i \in 1..Len(existing_facts) :
        RatioAtLeast(Clean(existing_facts[i]), Clean(new_fact))

\* The fact as merge_facts stores it: the marker put in front, the date appended
\* when the text holds no "(".
Dated(fact, timestamp) ==
    LET marked == IF StartsWith(fact, FactMarker) THEN fact ELSE FactMarker \o fact
    IN  IF ~Contains(marked, "(")
        THEN marked \o << " ", "(" >> \o timestamp \o << ")" >>
        ELSE marked

\* A value decoded by json.loads: t is its kind, v its content.
JStr(chars) == [t |-> "str", v |-> chars]

JArr(elems) == [t |-> "arr", v |-> elems]

JObj(items) == [t |-> "obj", v |-> items]

JNum(n) == [t |-> "num", v |-> n]

JNull == [t |-> "null", v |-> 0]

JBool(b) == [t |-> "bool", v |-> b]

\* The inner loop of merge_facts over the facts of one subcategory; st holds
\* existing, all_existing and added_count.  The facts are decoded JSON values:
\* fact.startswith raises AttributeError on one that is not a str.
RECURSIVE MergeBucket(_, _, _, _)
MergeBucket(st, subcategory, facts, timestamp) ==
    IF facts = << >> \/ st.raised THEN st
    ELSE IF facts[1].t # "str" THEN [st EXCEPT !.raised = TRUE]
    ELSE LET fact == Dated(facts[1].v, timestamp)
             nxt  == IF ~is_duplicate(st.all_existing, fact)
                     THEN [st EXCEPT
                             !.existing     = AppendTo(st.existing, subcategory, fact),
                             !.all_existing = Append(st.all_existing, fact),
                             !.added_count  = st.added_count + 1]
                     ELSE st
         IN  MergeBucket(nxt, subcategory, Tail(facts), timestamp)

\* The outer loop of merge_facts over new_data.items().
RECURSIVE MergeItems(_, _, _)
MergeItems(st, new_data, timestamp) ==
    IF new_data = << >> \/ st.raised THEN st
    ELSE LET sub == new_data[1].key
             st1 == [st EXCEPT !.existing = WithBucket(st.existing, sub)]
         IN  MergeItems(MergeBucket(st1, sub, new_data[1].val, timestamp),
                        Tail(new_data), timestamp)

\* A merge that compares a candidate with the new facts only.
MergeIntoBlind(existing, new_data, timestamp) ==
    MergeItems([existing     |-> existing,
                all_existing |-> << >>,
                added_count  |-> 0,
                raised       |-> FALSE],
               new_data, timestamp)

\* merge_facts between its read_category and its write_category: the merged
\* store, the number of facts added, and whether the loop raised.
MergeInto(existing, new_data, timestamp) ==
    MergeItems([existing     |-> existing,
                all_existing |-> AllValues(existing),
                added_count  |-> 0,
                raised       |-> FALSE],
               new_data, timestamp)

\* merge_facts on a file's text: the text left in the file and the count
\* returned; when the loop raises, write_category is never reached.
merge_facts(content, category, new_data, timestamp) ==
    LET st == MergeInto(read_category(content), new_data, timestamp)
    IN  IF st.raised
        THEN [raised |-> TRUE, content |-> content, added |-> 0]
        ELSE [raised  |-> FALSE,
              content |-> write_category(category, st.existing),
              added   |-> st.added_count]

(***************************************************************************)
(* ReflectionAgent (agents/reflection_agent.py): parsing and normalizing   *)
(* the response of the model                                               *)
(***************************************************************************)

\* The whitespace json skips between tokens, and \s of re.
IsWs(c) == c \in {" ", "\n"}

\* The first position from i on that holds no whitespace (Len(s) + 1 at the end).
SkipWs(s, i) ==
    LET stops == {j \in i..(Len(s) + 1) : j > Len(s) \/ ~IsWs(s[j])}
    IN  CHOOSE j \in stops : \A k \in stops : j <= k

IsDigit(c) == c \in {"1", "2"}

DigitVal(c) == IF c = "1" THEN 1 ELSE 2

ParseFail == [ok |-> FALSE, val |-> JNull, pos |-> 0]

ParseOk(val, pos) == [ok |-> TRUE, val |-> val, pos |-> pos]

\* A JSON string from the position after its opening quote.  A raw line break
\* inside it is a control character and is rejected; of the escapes only \" \\
\* and \n occur in the texts of the model.
RECURSIVE ParseString(_, _, _)
ParseString(s, i, acc) ==
    IF i > Len(s) \/ s[i] = "\n" THEN ParseFail
    ELSE IF s[i] = "\"" THEN ParseOk(JStr(acc), i + 1)
    ELSE IF s[i] = "\\"
    THEN IF i + 1 > Len(s) THEN ParseFail
         ELSE IF s[i + 1] \in {"\"", "\\"}
         THEN ParseString(s, i + 2, Append(acc, s[i + 1]))
         ELSE IF s[i + 1] = "n" THEN ParseString(s, i + 2, Append(acc, "\n"))
         ELSE ParseFail
    ELSE ParseString(s, i + 1, Append(acc, s[i]))

\* The digits of a number from i on.
RECURSIVE ParseDigits(_, _, _)
ParseDigits(s, i, acc) ==
    IF i <= Len(s) /\ IsDigit(s[i])
    THEN ParseDigits(s, i + 1, 10 * acc + DigitVal(s[i]))
    ELSE ParseOk(JNum(acc), i)

\* A literal (null, true, false) at i.
ParseLiteral(s, i, word, val) ==
    IF StartsWith(From(s, i - 1), word) THEN ParseOk(val, i + Len(word)) ELSE ParseFail

RECURSIVE ParseValue(_, _)
RECURSIVE ParseMembers(_, _, _)
RECURSIVE ParseElements(_, _, _)

\* The members of an object from i on (i is at a key), acc the items so far.
ParseMembers(s, i, acc) ==
    IF i > Len(s) \/ s[i] # "\"" THEN ParseFail
    ELSE LET k == ParseString(s, i + 1, << >>)
         IN  IF ~k.ok THEN ParseFail
             ELSE LET c == SkipWs(s, k.pos)
                  IN  IF c > Len(s) \/ s[c] # ":" THEN ParseFail
                      ELSE LET v == ParseValue(s, SkipWs(s, c + 1))
                           IN  IF ~v.ok THEN ParseFail
                               ELSE LET e    == SkipWs(s, v.pos)
                                        acc1 == Put(acc, k.val.v, v.val)
                                    IN  IF e > Len(s) THEN ParseFail
                                        ELSE IF s[e] = "}"
                                        THEN ParseOk(JObj(acc1), e + 1)
                                        ELSE IF s[e] = ","
                                        THEN ParseMembers(s, SkipWs(s, e + 1), acc1)
                                        ELSE ParseFail

\* The elements of an array from i on (i is at a value), acc the elements so far.
ParseElements(s, i, acc) ==
    LET v == ParseValue(s, i)
    IN  IF ~v.ok THEN ParseFail
        ELSE LET e    == SkipWs(s, v.pos)
                 acc1 == Append(acc, v.val)
             IN  IF e > Len(s) THEN ParseFail
                 ELSE IF s[e] = "]" THEN ParseOk(JArr(acc1), e + 1)
                 ELSE IF s[e] = "," THEN ParseElements(s, SkipWs(s, e + 1), acc1)
                 ELSE ParseFail

\* The JSON value that starts at i.
ParseValue(s, i) ==
    IF i > Len(s) THEN ParseFail
    ELSE IF s[i] = "{"
    THEN LET j == SkipWs(s, i + 1)
         IN  IF j <= Len(s) /\ s[j] = "}" THEN ParseOk(JObj(<< >>), j + 1)
             ELSE ParseMembers(s, j, << >>)
    ELSE IF s[i] = "["
    THEN LET j == SkipWs(s, i + 1)
         IN  IF j <= Len(s) /\ s[j] = "]" THEN ParseOk(JArr(<< >>), j + 1)
             ELSE ParseElements(s, j, << >>)
    ELSE IF s[i] = "\"" THEN ParseString(s, i + 1, << >>)
    ELSE IF IsDigit(s[i]) THEN ParseDigits(s, i, 0)
    ELSE IF s[i] = "-"
    THEN IF i + 1 <= Len(s) /\ IsDigit(s[i + 1])
         THEN LET n == ParseDigits(s, i + 1, 0) IN ParseOk(JNum(0 - n.val.v), n.pos)
         ELSE ParseFail
    ELSE IF s[i] = "n" THEN ParseLiteral(s, i, << "n", "u", "l", "l" >>, JNull)
    ELSE IF s[i] = "t" THEN ParseLiteral(s, i, << "t", "r", "u", "e" >>, JBool(TRUE))
    ELSE IF s[i] = "f"
    THEN ParseLiteral(s, i, << "f", "a", "l", "s", "e" >>, JBool(FALSE))
    ELSE ParseFail

\* json.loads(s): ok is FALSE where it raises JSONDecodeError.
json_loads(s) ==
    LET r == ParseValue(s, SkipWs(s, 1))
    IN  IF r.ok /\ SkipWs(s, r.pos) > Len(s) THEN r ELSE ParseFail

Fence == << BQ, BQ, BQ >>

\* The positions (1-based) at which pat occurs in s.
Occurrences(s, pat) ==
    {i \in 1..(Len(s) - Len(pat) + 1) : SubSeq(s, i, i + Len(pat) - 1) = pat}

MinOf(S) == CHOOSE i \in S : \A j \in S : i <= j

MaxOf(S) == CHOOSE i \in S : \A j \in S : i >= j

\* re.search(r'```(?:json)?\s*([\s\S]*?)\s*```', s): group 1 of the leftmost
\* match.  After the opening fence, "json" and whitespace are consumed; the
\* group runs to the whitespace before the next fence.
FenceSearch(s) ==
    LET fences == Occurrences(s, Fence)
        Body(p) ==
            LET a == p + 3
                b == IF StartsWith(From(s, a - 1), << "j", "s", "o", "n" >>)
                     THEN a + 4 ELSE a
            IN  SkipWs(s, b)
        Closing(p) == {c \in fences : c >= Body(p)}
        opening == {p \in fences : Closing(p) # {}}
    IN  IF opening = {} THEN [found |-> FALSE, group |-> << >>]
        ELSE LET p == MinOf(opening)
                 q == Body(p)
                 c == MinOf(Closing(p))
                 ends == {e \in q..c : \A k \in e..(c - 1) : IsWs(s[k])}
             IN  [found |-> TRUE, group |-> SubSeq(s, q, MinOf(ends) - 1)]

\* re.search(r'\{[\s\S]*\}', s): from the first "{" to the last "}" after it.
BraceSearch(s) ==
    LET opens == Occurrences(s, << "{" >>)
        closes == Occurrences(s, << "}" >>)
    IN  IF opens = {} \/ {c \in closes : c > MinOf(opens)} = {}
        THEN [found |-> FALSE, group |-> << >>]
        ELSE [found |-> TRUE, group |-> SubSeq(s, MinOf(opens), MaxOf(closes))]

Returned(val) == [raised |-> FALSE, val |-> val]

Raised == [raised |-> TRUE, val |-> JNull]

\* _parse_response: the value returned, or raised where a json.loads inside the
\* except block raises JSONDecodeError.
_parse_response(response_text) ==
    LET direct == json_loads(response_text)
        fence  == FenceSearch(response_text)
        brace  == BraceSearch(response_text)
    IN  IF direct.ok THEN Returned(direct.val)
        ELSE IF fence.found
        THEN LET r == json_loads(fence.group)
             IN  IF r.ok THEN Returned(r.val) ELSE Raised
        ELSE IF brace.found
        THEN LET r == json_loads(brace.group)
             IN  IF r.ok THEN Returned(r.val) ELSE Raised
        ELSE Returned(JObj(<< >>))

\* p in s for two str
IsSubstring(p, s) == p = << >> \/ Occurrences(s, p) # {}

\* category in raw: TypeError unless raw is a dict, a list or a str
CanContain(raw) == raw.t \in {"obj", "arr", "str"}

InRaw(category, raw) ==
    IF raw.t = "obj" THEN HasKey(raw.v, category)
    ELSE IF raw.t = "arr" THEN \E i \in 1..Len(raw.v) : raw.v[i] = JStr(category)
    ELSE IsSubstring(category, raw.v)

NullKeys == { << "n", "u", "l", "l" >>, << "N", "o", "n", "e" >> }

\* The loop of _normalize_extraction over cat_data.items().
RECURSIVE NormalizeItems(_, _)
NormalizeItems(items, normalized) ==
    IF items = << >> THEN normalized
    ELSE LET key == IF items[1].key \in NullKeys THEN NoneKey ELSE items[1].key
             facts == items[1].val
         IN  NormalizeItems(Tail(items),
                            IF facts.t = "arr" THEN Put(normalized, key, facts.v)
                            ELSE normalized)

\* The loop of _normalize_extraction over MemoryManager.CATEGORIES.
RECURSIVE NormalizeCategories(_, _, _)
NormalizeCategories(cats, raw, result) ==
    IF cats = << >> THEN Returned(result)
    ELSE IF ~CanContain(raw) THEN Raised
    ELSE IF ~InRaw(cats[1], raw) THEN NormalizeCategories(Tail(cats), raw, result)
    ELSE IF raw.t # "obj" THEN Raised
    ELSE LET cat_data == Get(raw.v, cats[1])
         IN  IF cat_data.t # "obj" THEN Raised
             ELSE LET normalized == NormalizeItems(cat_data.v, << >>)
                  IN  NormalizeCategories(Tail(cats), raw,
                         IF normalized # << >>
                         THEN Put(result, cats[1], normalized)
                         ELSE result)

\* _normalize_extraction(raw)
_normalize_extraction(raw) == NormalizeCategories(CATEGORIES, raw, << >>)

(***************************************************************************)
(* The message ledger (database/repository.py, database/models.py)         *)
(***************************************************************************)

\* A row of the messages table; content, role and thread_id play no part in
\* the consolidation and are left out.
Message(id, timestamp) == [id |-> id, timestamp |-> timestamp, processed |-> FALSE]

\* MessageRepository.save_message: the id is the next of the sequence, the
\* timestamp is the clock at the insert.
save_message(msgs, clock) == Append(msgs, Message(Len(msgs) + 1, clock))

\* ORDER BY timestamp ASC: the row at position k is the one that k - 1 rows
\* precede; rows with equal timestamps keep the order of their ids.
OrderByTimestamp(rows) ==
    LET Before(i, j) == \/ rows[i].timestamp < rows[j].timestamp
                        \/ rows[i].timestamp = rows[j].timestamp /\ i < j
        Rank(j)      == Cardinality({i \in 1..Len(rows) : Before(i, j)}) + 1
    IN  [k \in 1..Len(rows) |-> rows[CHOOSE j \in 1..Len(rows) : Rank(j) = k]]

\* filter(Message.processed == False)
Unprocessed(msgs) == SelectSeq(msgs, LAMBDA m : ~m.processed)

\* A query without the filter on processed.
get_any_messages(msgs, limit) ==
    LET rows == OrderByTimestamp(msgs)
        n    == IF Len(rows) < limit THEN Len(rows) ELSE limit
    IN  [i \in 1..n |-> rows[i].id]

\* MessageRepository.get_unprocessed_messages(limit): the ids of the rows
get_unprocessed_messages(msgs, limit) ==
    LET rows == OrderByTimestamp(Unprocessed(msgs))
        n    == IF Len(rows) < limit THEN Len(rows) ELSE limit
    IN  [i \in 1..n |-> rows[i].id]

\* MessageRepository.get_unprocessed_count
get_unprocessed_count(msgs) == Len(Unprocessed(msgs))

\* The elements of a sequence
Range(q) == {q[i] : i \in 1..Len(q)}

\* MessageRepository.mark_messages_processed: UPDATE ... WHERE id IN (message_ids)
mark_messages_processed(msgs, message_ids) ==
    [i \in 1..Len(msgs) |->
        IF msgs[i].id \in message_ids THEN [msgs[i] EXCEPT !.processed = TRUE]
        ELSE msgs[i]]

\* The keys of a dict, in insertion order: list(results.keys())
Keys(d) == [i \in 1..Len(d) |-> d[i].key]

\* ReflectionLogRepository.log_reflection: the row added to reflection_log
log_reflection(last_processed_id, messages_processed, categories_updated) ==
    [last_processed_id  |-> last_processed_id,
     messages_processed |-> messages_processed,
     categories_updated |-> categories_updated]

(***************************************************************************)
(* ReflectionScheduler (services/scheduler.py)                             *)
(***************************************************************************)

\* time_interval and message_threshold of ReflectionScheduler.__init__, and the
\* limit _run_reflection passes to get_unprocessed_messages.
TimeInterval == 300

MessageThreshold == 5

BatchLimit == 20

\* Bounds of the model.
MaxForce == 1

MaxStarts == 2

MaxAppend == 1

\* The clock is observed at these instants (seconds since construction); the
\* date changes at Midnight.
Instants == {0, 50, TimeInterval, TimeInterval + 1}

Midnight == 300

\* The numbers of messages found in the ledger when the scheduler is
\* constructed: in the runs at one instant, and in the runs over time.
InitialCounts == {MessageThreshold - 1, BatchLimit + 1}

ClockCounts == {MessageThreshold - 2, MessageThreshold - 1}

\* The responses of the model in the runs of the scheduler.
TextDirect ==
    << "{", "\"", "g", "o", "a", "l", "s", "\"", ":", "{", "\"", "n", "u", "l", "l",
       "\"", ":", "[", "\"", "a", "\"", "]", "}", "}" >>

TextFenced ==
    << "o", "k", " ", BQ, BQ, BQ, "j", "s", "o", "n", "\n",
       "{", "\"", "h", "a", "b", "i", "t", "s", "\"", ":", "{", "\"", "n", "u", "l",
       "l", "\"", ":", "[", "\"", "b", "\"", "]", "}", ",",
       "\"", "g", "o", "a", "l", "s", "\"", ":", "{", "\"", "W", "\"", ":", "[",
       "\"", "-", " ", "a", "\"", "]", "}", "}", "\n", BQ, BQ, BQ >>

TextProse == << "o", "k" >>

TextBadFence == << BQ, BQ, BQ, "o", "k", BQ, BQ, BQ >>

Responses == {TextFenced, TextProse, TextBadFence}

\* The responses _parse_response is applied to on its own: up to MaxSegments
\* pieces of prose, fences, a JSON object and a lone brace, one after another.
MaxSegments == 4

Segments ==
    { << "o", "k", " " >>,
      Fence,
      Fence \o << "j", "s", "o", "n", "\n" >>,
      TextDirect,
      << "{" >> }

RECURSIVE Concat(_)
Concat(pieces) == IF pieces = << >> THEN << >> ELSE pieces[1] \o Concat(Tail(pieces))

ParseTexts ==
    {Concat(pieces) : pieces \in UNION {[1..n -> Segments] : n \in 0..MaxSegments}}

\* The facts process is applied to on its own, as the model words them: a plain
\* fact, the same with its marker, the same in capitals, one that spans two
\* lines, and another plain fact.
MaxFacts == 2

Facts ==
    { << "a" >>,
      << "-", " ", "a" >>,
      << "A" >>,
      << "a", "\n", "b", "c" >>,
      << "b" >> }

FactLists == UNION {[1..n -> {JStr(f) : f \in Facts}] : n \in 1..MaxFacts}

\* The extractions process is applied to on its own: the same facts for one or
\* two categories, in the unnamed subcategory or in the subcategory W.
Extractions ==
    {[i \in 1..Len(cats) |-> [key |-> cats[i], val |-> << [key |-> sub, val |-> fs] >>]] :
        cats \in {<< goals >>, << goals, habits >>},
        sub \in {NoneKey, << "W" >>},
        fs \in FactLists}

VARIABLES
    now,             \* the clock, in seconds since the scheduler was constructed
    running,         \* ReflectionScheduler._running
    last_run,        \* ReflectionScheduler._last_run
    lock,            \* the holder of ReflectionScheduler._lock
    pc,              \* where each thread is
    loc,             \* the locals of _run_reflection in each thread, its session included
    messages,        \* the committed rows of the messages table
    reflection_log,  \* the committed rows of the reflection_log table
    files,           \* the text of each category's file
    starts,          \* the poll loop threads created so far
    appended,        \* the messages saved since construction
    crashed,         \* the process was killed
    history,         \* the completed runs
    last_abort       \* the batch and cause of the latest aborted run

vars ==
    << now, running, last_run, lock, pc, loc, messages, reflection_log, files,
       starts, appended, crashed, history, last_abort >>

NoThread == << "none", 0 >>

LoopThreads == {<< "loop", i >> : i \in 1..MaxStarts}

ForceThreads == {<< "force", i >> : i \in 1..MaxForce}

\* The thread of a chat request that retrieves memories.
Reader == << "reader", 1 >>

\* The thread of the application that calls stop().
Stopper == << "stop", 1 >>

Threads == LoopThreads \cup ForceThreads \cup {Reader, Stopper}

CategorySet == Range(CATEGORIES)

\* The locals of a thread outside _run_reflection.
NoResponse == << "None" >>

NoLocals ==
    [batch     |-> << >>,     \* message_ids, the ids of the messages fetched
     response  |-> NoResponse, \* response.text, of extract
     extracted |-> << >>,     \* extracted, of process
     calls     |-> 0,         \* the calls of process that have returned
     idx       |-> 0,         \* the position of process in extracted.items()
     results   |-> << >>,     \* results, of process
     existing  |-> << >>,     \* existing, of merge_facts, after its loops
     pending   |-> << >>,     \* the text merge_facts is about to write
     added     |-> 0,         \* added_count, of merge_facts
     tx_marked |-> {},        \* ids updated in the session, not committed
     tx_log    |-> << >>,     \* rows added in the session, not committed
     files0    |-> << >>,     \* the files as they were at the fetch
     waited    |-> FALSE,     \* the thread found the lock held and waits for it
     memories  |-> << >>,     \* memories, of _load_memories
     cause     |-> "none"]    \* what raised, while the exception unwinds

NoAbort == [batch |-> << >>, cause |-> "none"]

\* datetime.now().strftime("%Y-%m-%d"), for a clock that passes one midnight
StrfDate(clock) == IF clock < Midnight THEN << "1" >> ELSE << "2" >>

\* The number of facts read_category finds in a text.
NumFacts(content) == Len(AllValues(read_category(content)))

\* The state after construction: a ledger with some unprocessed messages, files
\* as _initialize_files creates them, no thread.
InitWith(counts) ==
    /\ now = 0
    /\ running = FALSE
    /\ last_run = 0
    /\ lock = NoThread
    /\ pc = [t \in Threads |-> "unborn"]
    /\ loc = [t \in Threads |-> NoLocals]
    /\ \E n \in counts : messages = [i \in 1..n |-> Message(i, 0)]
    /\ reflection_log = << >>
    /\ files = [c \in CategorySet |-> InitialFile(c)]
    /\ starts = 0
    /\ appended = 0
    /\ crashed = FALSE
    /\ history = << >>
    /\ last_abort = NoAbort

Init == InitWith(InitialCounts)

\* A poll loop without its except clause: the exception ends the thread.
ReturnUncaught(t) ==
    "done"

\* Where a thread goes when _run_reflection returns or raises: the poll loop
\* catches the exception and sleeps; a thread of force_run ends.
Return(t) ==
    IF t \in LoopThreads THEN "loop" ELSE "done"

\* start()
Start ==
    /\ ~crashed /\ ~running /\ starts < MaxStarts
    /\ running' = TRUE
    /\ starts' = starts + 1
    /\ pc' = [pc EXCEPT ![<< "loop", starts + 1 >>] = "loop"]
    /\ UNCHANGED << now, last_run, lock, loc, messages, reflection_log, files,
                    appended, crashed, history, last_abort >>

\* force_run(): a new thread that calls _run_reflection
force_run ==
    /\ ~crashed
    /\ \E t \in ForceThreads :
        /\ pc[t] = "unborn"
        /\ \A u \in ForceThreads : u[2] < t[2] => pc[u] # "unborn"
        /\ pc' = [pc EXCEPT ![t] = "acquire"]
    /\ UNCHANGED << now, running, last_run, lock, loc, messages, reflection_log,
                    files, starts, appended, crashed, history, last_abort >>

\* ChatAgent._save_message: one message saved and committed
AppendMessage ==
    /\ ~crashed /\ appended < MaxAppend
    /\ messages' = save_message(messages, now)
    /\ appended' = appended + 1
    /\ UNCHANGED << now, running, last_run, lock, pc, loc, reflection_log, files,
                    starts, crashed, history, last_abort >>

\* Time passes.
AdvanceClock ==
    /\ ~crashed
    /\ \E i \in Instants : i > now /\ now' = i
    /\ UNCHANGED << running, last_run, lock, pc, loc, messages, reflection_log,
                    files, starts, appended, crashed, history, last_abort >>

\* _run_loop: the test of the while loop
LoopTest(t) ==
    /\ pc[t] = "loop"
    /\ pc' = [pc EXCEPT ![t] = IF running THEN "check" ELSE "exited"]
    /\ UNCHANGED << now, running, last_run, lock, loc, messages, reflection_log,
                    files, starts, appended, crashed, history, last_abort >>

\* A condition without the time trigger.
ShouldRunByCount(unprocessed_count, time_elapsed) ==
    unprocessed_count >= MessageThreshold /\ unprocessed_count > 0

\* A condition that waits for more than the interval.
ShouldRunLate(unprocessed_count, time_elapsed) ==
    LET time_trigger    == time_elapsed > TimeInterval
        message_trigger == unprocessed_count >= MessageThreshold
    IN  (time_trigger \/ message_trigger) /\ unprocessed_count > 0

\* The condition of _check_and_run.
ShouldRun(unprocessed_count, time_elapsed) ==
    LET time_trigger    == time_elapsed >= TimeInterval
        message_trigger == unprocessed_count >= MessageThreshold
    IN  (time_trigger \/ message_trigger) /\ unprocessed_count > 0

\* _check_and_run: the count and the clock are read, _run_reflection is called
\* when the condition holds
_check_and_run(t) ==
    /\ pc[t] = "check"
    /\ pc' = [pc EXCEPT ![t] =
                IF ShouldRun(get_unprocessed_count(messages), now - last_run)
                THEN "acquire" ELSE "loop"]
    /\ UNCHANGED << now, running, last_run, lock, loc, messages, reflection_log,
                    files, starts, appended, crashed, history, last_abort >>

\* A run that enters without waiting for the lock.
AcquireUnlocked(t) ==
    /\ pc[t] = "acquire"
    /\ lock' = t
    /\ pc' = [pc EXCEPT ![t] = "fetch"]
    /\ UNCHANGED << now, running, last_run, loc, messages, reflection_log, files,
                    starts, appended, crashed, history, last_abort >>

\* with self._lock: the thread waits until the lock is free
Acquire(t) ==
    /\ pc[t] = "acquire"
    /\ lock = NoThread
    /\ lock' = t
    /\ pc' = [pc EXCEPT ![t] = "fetch"]
    /\ UNCHANGED << now, running, last_run, loc, messages, reflection_log, files,
                    starts, appended, crashed, history, last_abort >>

\* An acquire that gives up when the lock is held: the run is dropped.
BlockGiveUp(t) ==
    /\ pc[t] = "acquire"
    /\ lock # NoThread
    /\ pc' = [pc EXCEPT ![t] = Return(t)]
    /\ UNCHANGED << now, running, last_run, lock, loc, messages, reflection_log,
                    files, starts, appended, crashed, history, last_abort >>

\* with self._lock: the lock is held by another run, the thread is suspended
\* in its acquire
Block(t) ==
    /\ pc[t] = "acquire"
    /\ lock # NoThread
    /\ ~loc[t].waited
    /\ loc' = [loc EXCEPT ![t].waited = TRUE]
    /\ UNCHANGED << now, running, last_run, lock, pc, messages, reflection_log,
                    files, starts, appended, crashed, history, last_abort >>

\* A run that goes on to the oracle with whatever it fetched.
FetchNoReturn(t) ==
    /\ pc[t] = "fetch"
    /\ loc' = [loc EXCEPT ![t] =
                  [NoLocals EXCEPT !.batch = get_unprocessed_messages(messages, BatchLimit),
                                   !.files0 = files]]
    /\ pc' = [pc EXCEPT ![t] = "oracle"]
    /\ last_abort' = NoAbort
    /\ UNCHANGED << now, running, last_run, lock, messages, reflection_log, files,
                    starts, appended, crashed, history >>

\* messages = msg_repo.get_unprocessed_messages(limit=20); if not messages: return
Fetch(t) ==
    /\ pc[t] = "fetch"
    /\ LET batch == get_unprocessed_messages(messages, BatchLimit)
       IN  /\ loc' = [loc EXCEPT ![t] = [NoLocals EXCEPT !.batch = batch, !.files0 = files]]
           /\ pc' = [pc EXCEPT ![t] = IF batch = << >> THEN "release" ELSE "oracle"]
    /\ last_abort' = NoAbort
    /\ UNCHANGED << now, running, last_run, lock, messages, reflection_log, files,
                    starts, appended, crashed, history >>

\* An exception leaves _run_reflection: the thread starts to unwind.
Raise(t, cause) ==
    /\ pc' = [pc EXCEPT ![t] = "raise"]
    /\ loc' = [loc EXCEPT ![t].cause = cause]

\* The count of _check_and_run, or the opening of its session, raises.
CheckFail(t) ==
    /\ pc[t] = "check"
    /\ Raise(t, "check")
    /\ UNCHANGED << now, running, last_run, lock, messages, reflection_log, files,
                    starts, appended, crashed, history, last_abort >>

\* extract: generate_content returns one of the texts
Respond(t, texts) ==
    /\ pc[t] = "oracle"
    /\ \E text \in texts : loc' = [loc EXCEPT ![t].response = text]
    /\ pc' = [pc EXCEPT ![t] = "parse"]
    /\ UNCHANGED << now, running, last_run, lock, messages, reflection_log, files,
                    starts, appended, crashed, history, last_abort >>

OracleReturn(t) == Respond(t, Responses)

\* extract: the text is parsed and normalized; process starts its loop over the
\* extraction, or returns at once when it is empty
Extract(t) ==
    /\ pc[t] = "parse"
    /\ LET raw == _parse_response(loc[t].response)
       IN  IF raw.raised THEN Raise(t, "parse")
           ELSE LET ex == _normalize_extraction(raw.val)
                IN  IF ex.raised THEN Raise(t, "normalize")
                    ELSE /\ loc' = [loc EXCEPT ![t].extracted = ex.val, ![t].idx = 1]
                         /\ pc' = [pc EXCEPT ![t] =
                                     IF ex.val = << >> THEN "mark" ELSE "merge_read"]
    /\ UNCHANGED << now, running, last_run, lock, messages, reflection_log, files,
                    starts, appended, crashed, history, last_abort >>

\* A failure of the model that is taken for an empty extraction.
OracleRaiseSwallowed(t) ==
    /\ pc[t] = "oracle"
    /\ pc' = [pc EXCEPT ![t] = "mark"]
    /\ loc' = [loc EXCEPT ![t].cause = "oracle"]
    /\ UNCHANGED << now, running, last_run, lock, messages, reflection_log, files,
                    starts, appended, crashed, history, last_abort >>

\* extract: generate_content raises (an error of the service, a timeout)
OracleRaise(t) ==
    /\ pc[t] = "oracle"
    /\ Raise(t, "oracle")
    /\ UNCHANGED << now, running, last_run, lock, messages, reflection_log, files,
                    starts, appended, crashed, history, last_abort >>

\* merge_facts up to its write_category, for the category process is at
MergeRead(t) ==
    /\ pc[t] = "merge_read"
    /\ LET item == loc[t].extracted[loc[t].idx]
           st   == MergeInto(read_category(files[item.key]), item.val, StrfDate(now))
       IN  IF st.raised THEN Raise(t, "merge")
           ELSE /\ loc' = [loc EXCEPT ![t].existing = st.existing,
                                      ![t].pending = write_category(item.key, st.existing),
                                      ![t].added = st.added_count]
                /\ pc' = [pc EXCEPT ![t] = "merge_write"]
    /\ UNCHANGED << now, running, last_run, lock, messages, reflection_log, files,
                    starts, appended, crashed, history, last_abort >>

\* A loop body that records the category whatever merge_facts returned.
MergeWriteAlways(t) ==
    /\ pc[t] = "merge_write"
    /\ LET category == loc[t].extracted[loc[t].idx].key
           last     == loc[t].idx = Len(loc[t].extracted)
       IN  /\ files' = [files EXCEPT ![category] = loc[t].pending]
           /\ loc' = [loc EXCEPT
                        ![t].results = Put(@, category, loc[t].added),
                        ![t].idx = @ + 1,
                        ![t].existing = << >>,
                        ![t].pending = << >>,
                        ![t].added = 0]
           /\ pc' = [pc EXCEPT ![t] = IF last THEN "mark" ELSE "merge_read"]
    /\ UNCHANGED << now, running, last_run, lock, messages, reflection_log, starts,
                    appended, crashed, history, last_abort >>

\* write_category's write_text, and the rest of the loop body of process
MergeWrite(t) ==
    /\ pc[t] = "merge_write"
    /\ LET category == loc[t].extracted[loc[t].idx].key
           last     == loc[t].idx = Len(loc[t].extracted)
       IN  /\ files' = [files EXCEPT ![category] = loc[t].pending]
           /\ loc' = [loc EXCEPT
                        ![t].results = IF loc[t].added > 0
                                       THEN Put(@, category, loc[t].added) ELSE @,
                        ![t].idx = @ + 1,
                        ![t].existing = << >>,
                        ![t].pending = << >>,
                        ![t].added = 0]
           /\ pc' = [pc EXCEPT ![t] = IF last THEN "mark" ELSE "merge_read"]
    /\ UNCHANGED << now, running, last_run, lock, messages, reflection_log, starts,
                    appended, crashed, history, last_abort >>

\* A failure of the storage that process catches before it goes on to the
\* ledger.
StorageFailSwallowed(t) ==
    /\ pc[t] \in {"merge_read", "merge_write"}
    /\ pc' = [pc EXCEPT ![t] = "mark"]
    /\ loc' = [loc EXCEPT ![t].cause = "storage"]
    /\ UNCHANGED << now, running, last_run, lock, messages, reflection_log, files,
                    starts, appended, crashed, history, last_abort >>

\* read_text or write_text raises OSError; a write that fails leaves the file
\* as it was or truncated.
StorageFail(t) ==
    /\ pc[t] \in {"merge_read", "merge_write"}
    /\ Raise(t, "storage")
    /\ \/ UNCHANGED files
       \/ /\ pc[t] = "merge_write"
          /\ files' = [files EXCEPT ![loc[t].extracted[loc[t].idx].key] = << >>]
    /\ UNCHANGED << now, running, last_run, lock, messages, reflection_log, starts,
                    appended, crashed, history, last_abort >>

\* An UPDATE that is committed on its own.
MarkAutocommit(t) ==
    /\ pc[t] = "mark"
    /\ messages' = mark_messages_processed(messages, Range(loc[t].batch))
    /\ pc' = [pc EXCEPT ![t] = "log"]
    /\ UNCHANGED << now, running, last_run, lock, loc, reflection_log, files,
                    starts, appended, crashed, history, last_abort >>

\* msg_repo.mark_messages_processed(message_ids): an UPDATE in the session
Mark(t) ==
    /\ pc[t] = "mark"
    /\ loc' = [loc EXCEPT ![t].tx_marked = Range(loc[t].batch)]
    /\ pc' = [pc EXCEPT ![t] = "log"]
    /\ UNCHANGED << now, running, last_run, lock, messages, reflection_log, files,
                    starts, appended, crashed, history, last_abort >>

\* log_repo.log_reflection(...): an INSERT in the session
Log(t) ==
    /\ pc[t] = "log"
    /\ LET message_ids == loc[t].batch
       IN  loc' = [loc EXCEPT ![t].tx_log =
                      << log_reflection(message_ids[Len(message_ids)],
                                        Len(message_ids),
                                        Keys(loc[t].results)) >>]
    /\ pc' = [pc EXCEPT ![t] = "stamp"]
    /\ UNCHANGED << now, running, last_run, lock, messages, reflection_log, files,
                    starts, appended, crashed, history, last_abort >>

\* self._last_run = datetime.utcnow()
Stamp(t) ==
    /\ pc[t] = "stamp"
    /\ last_run' = now
    /\ pc' = [pc EXCEPT ![t] = "commit"]
    /\ UNCHANGED << now, running, lock, loc, messages, reflection_log, files,
                    starts, appended, crashed, history, last_abort >>

\* The categories whose file holds more facts than at the fetch.
Gained(t) ==
    {c \in CategorySet : /\ files[c] # loc[t].files0[c]
                         /\ NumFacts(files[c]) > NumFacts(loc[t].files0[c])}

\* get_db: db.commit() at the end of the with block
Commit(t) ==
    /\ pc[t] = "commit"
    /\ messages' = mark_messages_processed(messages, loc[t].tx_marked)
    /\ reflection_log' = reflection_log \o loc[t].tx_log
    /\ history' = Append(history, [batch  |-> loc[t].batch,
                                   gained |-> Gained(t),
                                   logged |-> loc[t].tx_log])
    /\ loc' = [loc EXCEPT ![t].tx_marked = {}, ![t].tx_log = << >>]
    /\ pc' = [pc EXCEPT ![t] = "release"]
    /\ UNCHANGED << now, running, last_run, lock, files, starts, appended, crashed,
                    last_abort >>

\* A statement of the session, or its commit, raises.
DbFail(t) ==
    /\ pc[t] \in {"fetch", "mark", "log", "commit"}
    /\ Raise(t, "db")
    /\ UNCHANGED << now, running, last_run, lock, messages, reflection_log, files,
                    starts, appended, crashed, history, last_abort >>

\* The exception leaves the with blocks: get_db rolls the session back, the
\* lock is released.
Abort(t) ==
    /\ pc[t] = "raise"
    /\ lock' = IF lock = t THEN NoThread ELSE lock
    /\ last_abort' = [batch |-> loc[t].batch, cause |-> loc[t].cause]
    /\ loc' = [loc EXCEPT ![t] = NoLocals]
    /\ pc' = [pc EXCEPT ![t] = Return(t)]
    /\ UNCHANGED << now, running, last_run, messages, reflection_log, files,
                    starts, appended, crashed, history >>

\* The end of the with blocks of _run_reflection: the lock is released.
Release(t) ==
    /\ pc[t] = "release"
    /\ lock' = NoThread
    /\ loc' = [loc EXCEPT ![t] = NoLocals]
    /\ pc' = [pc EXCEPT ![t] = Return(t)]
    /\ UNCHANGED << now, running, last_run, messages, reflection_log, files,
                    starts, appended, crashed, history, last_abort >>

\* The process is killed: its threads and sessions are gone, the committed
\* rows and the files stay.
Crash ==
    /\ ~crashed
    /\ crashed' = TRUE
    /\ running' = FALSE
    /\ lock' = NoThread
    /\ pc' = [t \in Threads |-> "dead"]
    /\ loc' = [t \in Threads |-> NoLocals]
    /\ last_run' = 0
    /\ last_abort' = NoAbort
    /\ UNCHANGED << now, messages, reflection_log, files, starts, appended, history >>

ThreadStep(t) ==
    \/ LoopTest(t)
    \/ _check_and_run(t)
    \/ Acquire(t)
    \/ Fetch(t)
    \/ OracleReturn(t)
    \/ Extract(t)
    \/ OracleRaise(t)
    \/ MergeRead(t)
    \/ MergeWrite(t)
    \/ StorageFail(t)
    \/ Mark(t)
    \/ Log(t)
    \/ Stamp(t)
    \/ Commit(t)
    \/ DbFail(t)
    \/ Abort(t)
    \/ Release(t)

Next ==
    \/ Start
    \/ force_run
    \/ AppendMessage
    \/ Crash
    \/ \E t \in Threads : ThreadStep(t)

\* The runs of the scheduler at one instant of the clock.
Spec == Init /\ [][Next]_vars

\* The runs of the scheduler while time passes, without failures.
ClockStep(t) ==
    \/ LoopTest(t)
    \/ _check_and_run(t)
    \/ Acquire(t)
    \/ Fetch(t)
    \/ OracleReturn(t)
    \/ Extract(t)
    \/ MergeRead(t)
    \/ MergeWrite(t)
    \/ Mark(t)
    \/ Log(t)
    \/ Stamp(t)
    \/ Commit(t)
    \/ Abort(t)
    \/ Release(t)

NextClock ==
    \/ Start
    \/ force_run
    \/ AppendMessage
    \/ AdvanceClock
    \/ \E t \in Threads : ClockStep(t)

SpecClock == InitWith(ClockCounts) /\ [][NextClock]_vars

\* _parse_response on its own: a forced run up to the end of extract, for every
\* text of ParseTexts.
ParseStep(t) ==
    \/ Acquire(t)
    \/ Fetch(t)
    \/ Respond(t, ParseTexts)
    \/ Extract(t)
    \/ Abort(t)

NextParse ==
    \/ force_run
    \/ \E t \in ForceThreads : ParseStep(t)

SpecParse == InitWith({MessageThreshold - 1}) /\ [][NextParse]_vars

\* The loop of process over extracted.items(), on the texts of the files.
RECURSIVE ProcessItems(_, _, _, _)
ProcessItems(items, store, results, timestamp) ==
    IF items = << >> THEN [raised |-> FALSE, files |-> store, results |-> results]
    ELSE LET category == items[1].key
             m == merge_facts(store[category], category, items[1].val, timestamp)
         IN  IF m.raised THEN [raised |-> TRUE, files |-> store, results |-> results]
             ELSE ProcessItems(Tail(items),
                               [store EXCEPT ![category] = m.content],
                               IF m.added > 0 THEN Put(results, category, m.added)
                               ELSE results,
                               timestamp)

\* process, from the extraction on: the files it leaves and the dict it returns
process(store, extracted, timestamp) == ProcessItems(extracted, store, << >>, timestamp)

\* process on its own: a run that holds a batch and an extraction of Extractions,
\* over files that an earlier run left.
Stores ==
    { [c \in CategorySet |-> InitialFile(c)],
      [c \in CategorySet |->
          IF c = goals
          THEN write_category(c, << [key |-> NoneKey,
                                     val |-> << Dated(<< "a" >>, << "1" >>) >>] >>)
          ELSE InitialFile(c)],
      [c \in CategorySet |->
          IF c = goals
          THEN write_category(c, << [key |-> << "W" >>,
                                     val |-> << Dated(<< "b" >>, << "1" >>) >>] >>)
          ELSE InitialFile(c)] }

TheRun == << "force", 1 >>

InitProcess ==
    /\ now = 0
    /\ running = FALSE
    /\ last_run = 0
    /\ lock = TheRun
    /\ pc = [t \in Threads |-> IF t = TheRun THEN "process" ELSE "unborn"]
    /\ messages = [i \in 1..(MessageThreshold - 1) |-> Message(i, 0)]
    /\ files \in Stores
    /\ \E e \in Extractions :
          loc = [t \in Threads |->
                   IF t = TheRun
                   THEN [NoLocals EXCEPT
                           !.batch = get_unprocessed_messages(messages, BatchLimit),
                           !.extracted = e,
                           !.files0 = files]
                   ELSE NoLocals]
    /\ reflection_log = << >>
    /\ starts = 0
    /\ appended = 0
    /\ crashed = FALSE
    /\ history = << >>
    /\ last_abort = NoAbort

MaxCalls == 2

\* One call of process with the extraction the run holds; files0 keeps the
\* files as the call found them.
ProcessCall(t) ==
    /\ pc[t] = "process"
    /\ loc[t].calls < MaxCalls
    /\ LET r == process(files, loc[t].extracted, StrfDate(now))
       IN  /\ files' = r.files
           /\ loc' = [loc EXCEPT ![t].results = r.results,
                                 ![t].files0 = files,
                                 ![t].calls = @ + 1]
    /\ UNCHANGED << now, running, last_run, lock, pc, messages, reflection_log,
                    starts, appended, crashed, history, last_abort >>

NextProcess ==
    \/ AdvanceClock
    \/ ProcessCall(TheRun)

SpecProcess == InitProcess /\ [][NextProcess]_vars

\* merge_facts on its own: a run that is about to merge, into a goals file that
\* earlier runs left, up to MaxBuckets subcategories with one fact each.
MaxBuckets == 2

SubKeys == {NoneKey, << "W", "o", "r", "k" >>, << "H", "o", "m", "e" >>, << >>}

NewFacts ==
    { << "a" >>, << "c" >>, << "a", "\n", "b", "c" >>,
      << "c", " ", "(", "x", ")" >>, << "c", " ", "(" >> }

NewData ==
    {d \in UNION {[1..n -> [key : SubKeys, val : {<< JStr(f) >> : f \in NewFacts}]] :
                     n \in 1..MaxBuckets} :
        \A i, j \in 1..Len(d) : i < j => d[i].key # d[j].key}

GoalsFiles ==
    {write_category(goals, d) :
        d \in { << >>,
                << [key |-> NoneKey, val |-> << Dated(<< "a" >>, << "1" >>) >>] >>,
                << [key |-> << "W", "o", "r", "k" >>,
                    val |-> << Dated(<< "b" >>, << "1" >>) >>] >>,
                << [key |-> NoneKey, val |-> << Dated(<< "a" >>, << "1" >>) >>],
                   [key |-> << "W", "o", "r", "k" >>,
                    val |-> << Dated(<< "b" >>, << "1" >>) >>] >> }}

InitMerge ==
    /\ now = 0
    /\ running = FALSE
    /\ last_run = 0
    /\ lock = TheRun
    /\ pc = [t \in Threads |-> IF t = TheRun THEN "merge_read" ELSE "unborn"]
    /\ messages = [i \in 1..(MessageThreshold - 1) |-> Message(i, 0)]
    /\ \E text \in GoalsFiles :
          files = [c \in CategorySet |-> IF c = goals THEN text ELSE InitialFile(c)]
    /\ \E d \in NewData :
          loc = [t \in Threads |->
                   IF t = TheRun
                   THEN [NoLocals EXCEPT
                           !.batch = get_unprocessed_messages(messages, BatchLimit),
                           !.extracted = << [key |-> goals, val |-> d] >>,
                           !.idx = 1,
                           !.files0 = files]
                   ELSE NoLocals]
    /\ reflection_log = << >>
    /\ starts = 0
    /\ appended = 0
    /\ crashed = FALSE
    /\ history = << >>
    /\ last_abort = NoAbort

NextMerge ==
    \/ MergeRead(TheRun)
    \/ MergeWrite(TheRun)

SpecMerge == InitMerge /\ [][NextMerge]_vars

\* _normalize_extraction and the merge after it on their own: a forced run whose
\* response is a JSON text with one category, of the enumeration or not, whose
\* value is a mapping with one subcategory, or no mapping at all.
TreeTexts ==
    LET JsonStr(chars)      == << "\"" >> \o chars \o << "\"" >>
        JsonObj(key, value) == << "{" >> \o JsonStr(key) \o << ":" >> \o value \o << "}" >>
        SubValues ==
            { << "[", "]" >>,
              << "[" >> \o JsonStr(<< "a" >>) \o << "]" >>,
              << "[", "1", "]" >>,
              << "[", "n", "u", "l", "l", "," >> \o JsonStr(<< "a" >>) \o << "]" >>,
              JsonStr(<< "x" >>),
              << "1" >> }
        CategoryValues ==
            { JsonStr(<< "x" >>), << "n", "u", "l", "l" >>, << "[", "]" >>, << "{", "}" >> }
            \cup {JsonObj(k, v) : k \in NullKeys \cup {<< "W" >>}, v \in SubValues}
    IN  {JsonObj(c, v) : c \in {goals, << "o", "t", "h", "e", "r" >>}, v \in CategoryValues}
        \cup { JsonStr(goals), << "[" >> \o JsonStr(goals) \o << "]" >>, << "1" >>,
               << "n", "u", "l", "l" >> }

NextNormalize ==
    \/ force_run
    \/ \E t \in ForceThreads :
          \/ Acquire(t)
          \/ Fetch(t)
          \/ Respond(t, TreeTexts)
          \/ Extract(t)
          \/ MergeRead(t)
          \/ MergeWrite(t)
          \/ Abort(t)

SpecNormalize == InitWith({MessageThreshold - 1}) /\ [][NextNormalize]_vars

\* The ticks of the poll loop and the forced runs while time passes, with the
\* failures of a tick: the count of the check, or the oracle of the run, raises.
\* The response holds no fact, so that the run goes from extract to the ledger.
NextTick ==
    \/ Start
    \/ force_run
    \/ AppendMessage
    \/ AdvanceClock
    \/ \E t \in Threads :
          \/ LoopTest(t)
          \/ _check_and_run(t)
          \/ CheckFail(t)
          \/ Block(t)
          \/ Acquire(t)
          \/ Fetch(t)
          \/ Respond(t, {TextProse})
          \/ OracleRaise(t)
          \/ Extract(t)
          \/ Mark(t)
          \/ Log(t)
          \/ Stamp(t)
          \/ Commit(t)
          \/ Abort(t)
          \/ Release(t)

SpecTick == InitWith({MessageThreshold - 1}) /\ [][NextTick]_vars

\* MemoryRetriever._load_memories for a list of categories: the text of each
\* file, stripped, is kept when it has more than one line.
_load_memories(fs, categories) ==
    LET Content(c) == Strip(fs[c])
        Kept(c)    == Occurrences(Content(c), << "\n" >>) # {}
        kept       == SelectSeq(categories, Kept)
    IN  [i \in 1..Len(kept) |-> [key |-> kept[i], val |-> Content(kept[i])]]

\* A retrieval loads the goals while a run merges into them.
Load(r) ==
    /\ pc[r] = "unborn"
    /\ loc' = [loc EXCEPT ![r].memories = _load_memories(files, << goals >>)]
    /\ pc' = [pc EXCEPT ![r] = "loaded"]
    /\ UNCHANGED << now, running, last_run, lock, messages, reflection_log, files,
                    starts, appended, crashed, history, last_abort >>

\* write_category's write_text, first half: open(path, "w") truncates the file
WriteOpen(t) ==
    /\ pc[t] = "merge_write"
    /\ files' = [files EXCEPT ![loc[t].extracted[loc[t].idx].key] = << >>]
    /\ pc' = [pc EXCEPT ![t] = "flush"]
    /\ UNCHANGED << now, running, last_run, lock, loc, messages, reflection_log,
                    starts, appended, crashed, history, last_abort >>

\* write_text, second half: the text is written and the file closed; then the
\* rest of the loop body of process
WriteFlush(t) ==
    /\ pc[t] = "flush"
    /\ LET category == loc[t].extracted[loc[t].idx].key
           last     == loc[t].idx = Len(loc[t].extracted)
       IN  /\ files' = [files EXCEPT ![category] = loc[t].pending]
           /\ loc' = [loc EXCEPT
                        ![t].results = IF loc[t].added > 0
                                       THEN Put(@, category, loc[t].added) ELSE @,
                        ![t].idx = @ + 1,
                        ![t].existing = << >>,
                        ![t].pending = << >>,
                        ![t].added = 0]
           /\ pc' = [pc EXCEPT ![t] = IF last THEN "mark" ELSE "merge_read"]
    /\ UNCHANGED << now, running, last_run, lock, messages, reflection_log, starts,
                    appended, crashed, history, last_abort >>

\* write_text raises between its two halves: the file is open and truncated,
\* the write or the close fails (disk full, I/O error)
WriteFail(t) ==
    /\ pc[t] = "flush"
    /\ Raise(t, "storage")
    /\ UNCHANGED << now, running, last_run, lock, messages, reflection_log, files,
                    starts, appended, crashed, history, last_abort >>

NextWrite ==
    \/ MergeRead(TheRun)
    \/ WriteOpen(TheRun)
    \/ WriteFlush(TheRun)
    \/ WriteFail(TheRun)
    \/ Abort(TheRun)
    \/ Load(Reader)

SpecWrite == InitMerge /\ [][NextWrite]_vars

\* The loop of process, step by step, with its storage failures: a run that
\* holds a batch and an extraction of Extractions and is about to merge the
\* first category, over files that an earlier run left.
InitRerun ==
    /\ now = 0
    /\ running = FALSE
    /\ last_run = 0
    /\ lock = TheRun
    /\ pc = [t \in Threads |-> IF t = TheRun THEN "merge_read" ELSE "unborn"]
    /\ messages = [i \in 1..(MessageThreshold - 1) |-> Message(i, 0)]
    /\ files \in Stores
    /\ \E e \in Extractions :
          loc = [t \in Threads |->
                   IF t = TheRun
                   THEN [NoLocals EXCEPT
                           !.batch = get_unprocessed_messages(messages, BatchLimit),
                           !.extracted = e,
                           !.idx = 1,
                           !.files0 = files]
                   ELSE NoLocals]
    /\ reflection_log = << >>
    /\ starts = 0
    /\ appended = 0
    /\ crashed = FALSE
    /\ history = << >>
    /\ last_abort = NoAbort

NextRerun ==
    \/ MergeRead(TheRun)
    \/ MergeWrite(TheRun)
    \/ StorageFail(TheRun)
    \/ Abort(TheRun)

SpecRerun == InitRerun /\ [][NextRerun]_vars

\* stop(): the flag is cleared; without a loop thread the call returns at once,
\* otherwise it joins self._thread, the loop thread created last
stop ==
    /\ ~crashed
    /\ pc[Stopper] # "joining"
    /\ running' = FALSE
    /\ pc' = [pc EXCEPT ![Stopper] = IF starts > 0 THEN "joining" ELSE "returned"]
    /\ UNCHANGED << now, last_run, lock, loc, messages, reflection_log, files,
                    starts, appended, crashed, history, last_abort >>

\* self._thread.join(timeout=5) returns: the loop thread has ended, or it is
\* still alive (in its sleep of 10 seconds, in a run, or waiting for the lock)
\* when the 5 seconds are over
join ==
    /\ pc[Stopper] = "joining"
    /\ pc' = [pc EXCEPT ![Stopper] =
                IF pc[<< "loop", starts >>] = "exited" THEN "joined" ELSE "timed_out"]
    /\ UNCHANGED << now, running, last_run, lock, loc, messages, reflection_log,
                    files, starts, appended, crashed, history, last_abort >>

\* The scheduler started and stopped by one caller, which calls start() only
\* when its stop() has returned, with forced runs and ticks that find the
\* threshold reached.
NextStop ==
    \/ pc[Stopper] # "joining" /\ Start
    \/ stop
    \/ join
    \/ force_run
    \/ \E t \in Threads :
          \/ LoopTest(t)
          \/ _check_and_run(t)
          \/ Block(t)
          \/ Acquire(t)
          \/ Fetch(t)
          \/ Respond(t, {TextProse})
          \/ Extract(t)
          \/ Mark(t)
          \/ Log(t)
          \/ Stamp(t)
          \/ Commit(t)
          \/ Release(t)

SpecStop == InitWith({MessageThreshold}) /\ [][NextStop]_vars

MaxRows == 3

\* A forced run over a ledger whose rows carry any timestamps: the id comes
\* from the sequence of the table when the row is inserted, the timestamp from
\* the clock of the session that saves it (models.py, default=datetime.utcnow),
\* so that sessions that save at the same time, or a clock that is set back,
\* leave a row with a greater id and an earlier timestamp.
InitRows ==
    /\ now = 50
    /\ running = FALSE
    /\ last_run = 0
    /\ lock = NoThread
    /\ pc = [t \in Threads |-> "unborn"]
    /\ loc = [t \in Threads |-> NoLocals]
    /\ \E n \in 1..MaxRows : \E ts \in [1..n -> {0, 50}] :
          messages = [i \in 1..n |-> Message(i, ts[i])]
    /\ reflection_log = << >>
    /\ files = [c \in CategorySet |-> InitialFile(c)]
    /\ starts = 0
    /\ appended = 0
    /\ crashed = FALSE
    /\ history = << >>
    /\ last_abort = NoAbort

NextRows ==
    \/ force_run
    \/ \E t \in ForceThreads :
          \/ Acquire(t)
          \/ Fetch(t)
          \/ Respond(t, {TextProse})
          \/ Extract(t)
          \/ Mark(t)
          \/ Log(t)
          \/ Stamp(t)
          \/ Commit(t)
          \/ Release(t)

SpecRows == InitRows /\ [][NextRows]_vars

\* Time passes until the time trigger is due: the clock reaches the instant
\* one interval after the latest stamp.  Later instants change nothing for the
\* trigger, which stays due until a run stamps again.
AdvanceDue ==
    /\ ~crashed
    /\ now - last_run < TimeInterval
    /\ now' = last_run + TimeInterval
    /\ UNCHANGED << running, last_run, lock, pc, loc, messages, reflection_log,
                    files, starts, appended, crashed, history, last_abort >>

\* The steps a thread takes by itself, which the interpreter schedules.
LiveStep(t) ==
    \/ LoopTest(t)
    \/ _check_and_run(t)
    \/ Acquire(t)
    \/ Fetch(t)
    \/ Extract(t)
    \/ Mark(t)
    \/ Log(t)
    \/ Stamp(t)
    \/ Commit(t)
    \/ Release(t)

NextLive ==
    \/ Start
    \/ force_run
    \/ AppendMessage
    \/ AdvanceDue
    \/ \E t \in Threads : LiveStep(t) \/ Respond(t, {TextProse})

\* The scheduler while nothing fails: time passes, a thread that can take a
\* step is scheduled (the poll loop sleeps 10 seconds and goes on, a free lock
\* is acquired), and the oracle answers the call it received.
SpecLive ==
    /\ Init
    /\ [][NextLive]_vars
    /\ WF_vars(AdvanceDue)
    /\ WF_vars(\E t \in Threads : LiveStep(t))
    /\ WF_vars(\E t \in Threads : Respond(t, {TextProse}))

\* The same scheduler with an oracle that may never answer: extract calls
\* generate_content without a timeout, so nothing but the answer ends the call.
SpecHang ==
    /\ Init
    /\ [][NextLive]_vars
    /\ WF_vars(AdvanceDue)
    /\ WF_vars(\E t \in Threads : LiveStep(t))

(***************************************************************************)
(* Properties                                                              *)
(***************************************************************************)

\* The positions of a thread inside the body of _run_reflection.
InBody ==
    {"fetch", "oracle", "parse", "merge_read", "merge_write", "mark", "log",
     "stamp", "commit", "release", "raise"}

\* The ids of the rows that are processed.
ProcessedIds(msgs) == {msgs[i].id : i \in {j \in 1..Len(msgs) : msgs[j].processed}}

\* The sum of messages_processed over the rows of the log.
RECURSIVE SumProcessed(_)
SumProcessed(log) ==
    IF log = << >> THEN 0 ELSE log[1].messages_processed + SumProcessed(Tail(log))

IsPrefix(a, b) == Len(a) <= Len(b) /\ SubSeq(b, 1, Len(a)) = a

\* No row of the ledger is deleted or given another id, and no processed flag
\* is cleared, in any step.
RowsKept ==
    /\ Len(messages') >= Len(messages)
    /\ \A i \in 1..Len(messages) :
          /\ messages'[i].id = messages[i].id
          /\ messages[i].processed => messages'[i].processed

\* C1: at most one thread is inside the body of _run_reflection at any time,
\* and it holds the lock from its fetch to the commit of its ledger updates; a
\* thread that waits to enter has fetched nothing.
MutualExclusion ==
    /\ \A t, u \in Threads : pc[t] \in InBody /\ pc[u] \in InBody => t = u
    /\ \A t \in Threads : pc[t] \in InBody => lock = t
    /\ \A t \in Threads : pc[t] = "acquire" => loc[t] = NoLocals

\* A forced run waits at the lock while the run of the poll loop has written a
\* file and not yet committed.
MutualExclusionWitness ==
    \E t, u \in Threads :
        /\ t # u
        /\ pc[u] = "acquire"
        /\ pc[t] \in {"mark", "log", "stamp", "commit"}
        /\ loc[t].results # << >>

\* C2: on a poll tick the run is started if and only if (the seconds since
\* last_run are at least the interval, or the unprocessed count is at least the
\* threshold) and the unprocessed count is positive; with interval 300 and
\* threshold 5, 3 messages after 301 s fire, 3 after 50 s and 0 after 301 s do
\* not.
TriggerRule ==
    [][\A t \in LoopThreads :
          pc[t] = "check" /\ pc'[t] # "check" =>
             LET count   == get_unprocessed_count(messages)
                 elapsed == now - last_run
             IN  /\ pc'[t] = "acquire" <=>
                       (elapsed >= TimeInterval \/ count >= MessageThreshold) /\ count > 0
                 /\ count = 3 /\ elapsed = 301 => pc'[t] = "acquire"
                 /\ count = 3 /\ elapsed = 50 => pc'[t] = "loop"
                 /\ count = 0 /\ elapsed = 301 => pc'[t] = "loop"]_vars

\* The tick has fired with 3 unprocessed messages, 301 s after last_run.
TriggerWitness ==
    \E t \in LoopThreads :
        /\ pc[t] = "acquire"
        /\ get_unprocessed_count(messages) = 3
        /\ now - last_run = 301

\* C3: no message id is in the batch of two completed runs, no message is
\* deleted and no processed flag is cleared, and the number of processed
\* messages equals the sum of messages_processed over the log.
ProcessedOnce ==
    /\ [](/\ \A i, j \in 1..Len(history) :
               i < j => Range(history[i].batch) \cap Range(history[j].batch) = {}
          /\ Cardinality(ProcessedIds(messages)) = SumProcessed(reflection_log))
    /\ [][RowsKept]_vars

\* Two runs have completed and every message of the ledger is processed.
ProcessedOnceWitness ==
    /\ Len(history) = 2
    /\ Cardinality(ProcessedIds(messages)) = BatchLimit + 1

\* C4: a completed run marks exactly the ids it fetched and adds one row to the
\* log, whose messages_processed is the size of the batch, between 1 and 20,
\* and whose categories_updated are the categories whose file gained a fact in
\* the run; the rows of the log are never changed.
RunRecorded ==
    /\ [](/\ Len(reflection_log) = Len(history)
          /\ \A i \in 1..Len(history) :
                LET h == history[i]
                IN  /\ h.logged = << reflection_log[i] >>
                    /\ reflection_log[i].messages_processed = Len(h.batch)
                    /\ Len(h.batch) \in 1..BatchLimit
                    /\ Range(reflection_log[i].categories_updated) = h.gained
                    /\ Len(reflection_log[i].categories_updated) = Cardinality(h.gained))
    /\ [][/\ IsPrefix(reflection_log, reflection_log')
          /\ \A t \in Threads :
                pc[t] = "commit" /\ pc'[t] = "release" =>
                   /\ ProcessedIds(messages') \ ProcessedIds(messages) = Range(loc[t].batch)
                   /\ Len(reflection_log') = Len(reflection_log) + 1]_vars

\* A run that fetched 4 messages and added facts has committed; the message
\* saved meanwhile is unprocessed.
RunRecordedWitness ==
    \E t \in Threads :
        /\ pc[t] = "release"
        /\ loc[t].results # << >>
        /\ Len(loc[t].batch) = MessageThreshold - 1
        /\ appended = 1
        /\ ~messages[Len(messages)].processed
        /\ history # << >>

\* C5: in every committed state of the ledger, whatever failed or was killed,
\* the processed messages are exactly those of the batches whose row is in the
\* log: the flags of a batch and its row are there together or not at all.
MarkAndLogAtomic ==
    /\ ProcessedIds(messages) = UNION {Range(history[i].batch) : i \in 1..Len(history)}
    /\ Len(reflection_log) = Len(history)
    /\ Cardinality(ProcessedIds(messages)) = SumProcessed(reflection_log)
    /\ \A i \in 1..Len(reflection_log) :
          reflection_log[i].last_processed_id \in ProcessedIds(messages)
    /\ last_abort.cause = "db" => Range(last_abort.batch) \cap ProcessedIds(messages) = {}

\* A run has been rolled back after its UPDATE, at a statement of the session
\* or at the commit.
MarkAndLogAtomicWitness ==
    /\ last_abort.cause = "db"
    /\ last_abort.batch # << >>
    /\ Len(reflection_log) = 0

\* What a step leaves alone while the run of t unwinds from a failure of the
\* given cause, and what the next fetch finds after it.
AbortsClean(t, cause) ==
    /\ loc[t].cause = cause \/ loc'[t].cause = cause =>
          /\ ProcessedIds(messages') = ProcessedIds(messages)
          /\ reflection_log' = reflection_log
    /\ loc'[t].cause = cause =>
          /\ pc'[t] = "raise"
          /\ loc'[t].tx_marked = {}
          /\ loc'[t].tx_log = << >>
          /\ Range(loc'[t].batch) \cap ProcessedIds(messages') = {}
    /\ pc[t] = "fetch" /\ pc'[t] \in {"oracle", "release"} /\ last_abort.cause = cause =>
          IsPrefix(last_abort.batch, loc'[t].batch)

\* C6: when the call of the model raises, the run aborts: no message is marked,
\* no row is logged, no file is changed, and the next run fetches the same
\* messages again.
OracleFailureAborts ==
    [][\A t \in Threads :
          /\ AbortsClean(t, "oracle")
          /\ loc[t].cause = "oracle" \/ loc'[t].cause = "oracle" =>
                /\ files' = files
                /\ loc'[t].cause = "oracle" => files' = loc'[t].files0]_vars

\* The next run is at its fetch after the call of the model raised.
OracleFailureWitness ==
    \E t \in Threads :
        /\ pc[t] = "fetch"
        /\ last_abort.cause = "oracle"
        /\ last_abort.batch # << >>

\* C7: when a read or a write of a category's file raises, the run aborts: no
\* message is marked, no row is logged, and the next run fetches the same
\* messages again.
StorageFailureAborts ==
    [][\A t \in Threads : AbortsClean(t, "storage")]_vars

\* The next run is at its fetch after a write raised in a run that had already
\* written another file.
StorageFailureWitness ==
    \E t \in Threads :
        /\ pc[t] = "fetch"
        /\ last_abort.cause = "storage"
        /\ last_abort.batch # << >>
        /\ \E c \in CategorySet : NumFacts(files[c]) > 0

\* The three tiers of the fallback, each on its own.
DirectOk(s) == json_loads(s).ok

FenceOk(s) == FenceSearch(s).found /\ json_loads(FenceSearch(s).group).ok

BraceOk(s) == BraceSearch(s).found /\ json_loads(BraceSearch(s).group).ok

\* extract has returned the normalized value, or normalizing it raised.
Extracted(t, val) ==
    /\ loc[t].cause # "parse"
    /\ pc[t] # "raise" => loc[t].extracted = _normalize_extraction(val).val

\* C8: the response is parsed directly, else from its first fenced block, else
\* from its brace span, each tier tried when the one before fails; when all
\* three fail the extraction is empty and nothing is raised.
ParseFallsBack ==
    \A t \in Threads :
        loc[t].response # NoResponse /\ pc[t] # "parse" =>
           LET s == loc[t].response
           IN  IF DirectOk(s) THEN Extracted(t, json_loads(s).val)
               ELSE IF FenceOk(s) THEN Extracted(t, json_loads(FenceSearch(s).group).val)
               ELSE IF BraceOk(s) THEN Extracted(t, json_loads(BraceSearch(s).group).val)
               ELSE pc[t] # "raise" /\ loc[t].extracted = << >>

\* C9: a run whose response no tier can parse completes: nothing is raised, and
\* what it commits is the whole batch and a row with no category.
UnparseableCompletes ==
    \A t \in Threads :
        /\ loc[t].response # NoResponse
        /\ pc[t] # "parse"
        /\ ~DirectOk(loc[t].response)
        /\ ~FenceOk(loc[t].response)
        /\ ~BraceOk(loc[t].response)
        => /\ loc[t].cause # "parse"
           /\ pc[t] = "commit" =>
                 /\ loc[t].tx_marked = Range(loc[t].batch)
                 /\ loc[t].tx_log[1].categories_updated = << >>

\* C10: a second call of process with the same extraction returns an empty dict
\* and leaves the facts of every category as the first call left them.
ProcessIdempotent ==
    \A t \in Threads :
        pc[t] = "process" /\ loc[t].calls = MaxCalls =>
           /\ loc[t].results = << >>
           /\ \A c \in CategorySet :
                 read_category(files[c]) = read_category(loc[t].files0[c])

\* The number of times fact f is in bucket k of store d.
Count(d, k, f) ==
    IF HasKey(d, k) THEN Cardinality({i \in 1..Len(Get(d, k)) : Get(d, k)[i] = f}) ELSE 0

\* Two stores hold the same (subcategory, fact) pairs, each as many times.
SamePairs(d, e) ==
    \A k \in Range(Keys(d)) \cup Range(Keys(e)) :
        \A f \in Range(AllValues(d)) \cup Range(AllValues(e)) :
            Count(d, k, f) = Count(e, k, f)

\* C11: the text write_category writes for a store, read by read_category,
\* gives the same (subcategory, fact) pairs as the store.
RoundTrip ==
    \A t \in Threads :
        pc[t] = "merge_write" =>
           SamePairs(read_category(loc[t].pending), loc[t].existing)

\* C12: write_category renders the facts without subcategory, when there are
\* any, right after the title and so before every named subcategory, the named
\* subcategories with facts in lexical order, and under each header the facts
\* of its bucket in their order of insertion.
RenderOrder ==
    \A t \in Threads :
        pc[t] = "merge_write" =>
           LET S     == loc[t].existing
               text  == loc[t].pending
               title == << "#", " " >> \o Title(loc[t].extracted[loc[t].idx].key)
               named == {k \in Range(Keys(S)) \ {NoneKey} : Get(S, k) # << >>}
               Header(k) == << "\n" >> \o SubMarker \o k \o << "\n" >>
               Section(k)  == << "\n" >> \o JoinLines(<< SubMarker \o k >> \o Get(S, k))
                            \o << "\n" >>
           IN  /\ Get(S, NoneKey) # << >> =>
                     StartsWith(text, title \o << "\n" >> \o JoinLines(Get(S, NoneKey))
                                      \o << "\n" >>)
               /\ \A k \in named :
                     /\ Cardinality(Occurrences(text, Header(k))) = 1
                     /\ Occurrences(text, Section(k)) # {}
               /\ \A k, l \in named :
                     StrLess(k, l) =>
                        MinOf(Occurrences(text, Header(k))) < MinOf(Occurrences(text, Header(l)))

\* The store {None: [a], Work: [b], Home: [c]}, Work put in before Home, is
\* about to be written.
RenderOrderWitness ==
    \E t \in Threads :
        /\ pc[t] = "merge_write"
        /\ Keys(loc[t].existing) =
              << NoneKey, << "W", "o", "r", "k" >>, << "H", "o", "m", "e" >> >>
        /\ \A i \in 1..3 : loc[t].existing[i].val # << >>

\* C13: in a merge a candidate is accepted only if it is no duplicate of any
\* fact the category held before, in whatever subcategory, nor of a candidate
\* accepted before it; an accepted candidate is appended to the bucket of its
\* subcategory, which is created when absent; a candidate that is left out is a
\* duplicate of a fact of the merged store.
MergeDedup ==
    \A t \in Threads :
        pc[t] = "merge_write" =>
           LET item     == loc[t].extracted[loc[t].idx]
               before   == read_category(files[item.key])
               after    == loc[t].existing
               Old(k)   == IF HasKey(before, k) THEN Get(before, k) ELSE << >>
               New(k)   == SubSeq(Get(after, k), Len(Old(k)) + 1, Len(Get(after, k)))
               Cand(i)  == Dated(item.val[i].val[1].v, StrfDate(now))
           IN  /\ \A k \in Range(Keys(after)) :
                     /\ IsPrefix(Old(k), Get(after, k))
                     /\ \A g \in Range(New(k)) :
                           /\ ~is_duplicate(AllValues(before), g)
                           /\ \E i \in 1..Len(item.val) :
                                 item.val[i].key = k /\ g = Cand(i)
               /\ \A k, l \in Range(Keys(after)) :
                     k # l =>
                        \A g \in Range(New(k)) : ~is_duplicate(New(l), g)
               /\ \A i \in 1..Len(item.val) :
                     /\ HasKey(after, item.val[i].key)
                     /\ \/ Cand(i) \in Range(New(item.val[i].key))
                        \/ is_duplicate(AllValues(after), Cand(i))
               /\ loc[t].added = Len(AllValues(after)) - Len(AllValues(before))

\* Of two candidates one is left out as the duplicate of a fact in another
\* subcategory, and its bucket, absent before, is there and empty.
MergeDedupWitness ==
    \E t \in Threads :
        /\ pc[t] = "merge_write"
        /\ loc[t].added = 1
        /\ Len(loc[t].extracted[1].val) = 2
        /\ \E k \in Range(Keys(loc[t].existing)) :
              /\ ~HasKey(read_category(files[goals]), k)
              /\ Get(loc[t].existing, k) = << >>
              /\ \E i \in 1..2 :
                    /\ loc[t].extracted[1].val[i].key = k
                    /\ loc[t].extracted[1].val[i].val[1].v = << "a" >>

\* C14: what the normalizer returns holds only categories of the enumeration,
\* no subcategory with the literal key "null", and no category without a fact.
NormalizedShape ==
    \A t \in Threads :
        pc[t] \in {"merge_read", "merge_write", "mark"} =>
           \A i \in 1..Len(loc[t].extracted) :
               LET category == loc[t].extracted[i]
               IN  /\ category.key \in CategorySet
                   /\ << "n", "u", "l", "l" >> \notin Range(Keys(category.val))
                   /\ AllValues(category.val) # << >>

\* C15: whatever tree the response decodes to, neither the normalizer nor the
\* merge raises, and every fact that is about to be written is a fact line.
MalformedTolerated ==
    \A t \in Threads :
        /\ loc[t].cause \notin {"normalize", "merge"}
        /\ pc[t] = "merge_write" =>
              \A f \in Range(AllValues(loc[t].existing)) : StartsWith(f, FactMarker)

\* C16: a tick of the poll loop whose condition holds while another run holds
\* the lock skips: the next step of its thread takes it back to the loop, it
\* neither waits for the lock nor runs once the lock is free.
TickSkips ==
    [][\A t \in LoopThreads :
          (/\ pc[t] = "acquire"
           /\ lock \notin {NoThread, t}
           /\ << pc'[t], loc'[t] >> # << pc[t], loc[t] >>)
          => pc'[t] = "loop" /\ ~loc'[t].waited]_vars

\* C17: force_run starts a run whatever the count and the clock are; the run
\* takes the lock of the scheduled runs, and when it finds the lock held it
\* waits and enters once the lock is free: it is neither failed nor dropped.
ForcedRunWaits ==
    [][\A t \in ForceThreads :
          /\ (pc[t] = "unborn" /\ \A u \in ForceThreads : u[2] < t[2] => pc[u] # "unborn")
                => ENABLED force_run
          /\ pc[t] = "unborn" /\ pc'[t] # "unborn" => pc'[t] = "acquire"
          /\ pc[t] = "acquire" /\ pc'[t] # "acquire"
                => pc'[t] = "fetch" /\ lock = NoThread /\ lock' = t]_vars

ForcedRunWitness ==
    \E t \in ForceThreads :
        /\ pc[t] = "fetch"
        /\ lock = t
        /\ loc[t].waited
        /\ ~ShouldRun(get_unprocessed_count(messages), now - last_run)

\* C18: when a run fails, the scheduler takes the time of the failure as the
\* new baseline of the time trigger, and holds the lock no more.
BaselineAtEnd ==
    [][\A t \in Threads :
          pc[t] = "raise" /\ loc[t].cause = "oracle" /\ pc'[t] # "raise"
          => last_run' = now /\ lock' # t]_vars

\* C19: an exception raised in a tick, by the check or by the run, is caught by
\* the poll loop: the lock is released, the thread is back at the test of its
\* loop with nothing left of the tick, and it can test again.
TickFailureCaught ==
    /\ [][\A t \in LoopThreads :
             pc[t] = "raise" /\ pc'[t] # "raise"
             => pc'[t] = "loop" /\ lock' # t /\ loc'[t] = NoLocals]_vars
    /\ [](\A t \in LoopThreads : pc[t] = "loop" => lock # t /\ ENABLED LoopTest(t))

TickFailureWitness ==
    \E t \in LoopThreads :
        /\ pc[t] = "check"
        /\ last_abort.cause \in {"check", "oracle"}
        /\ lock = NoThread
        /\ \A u \in ForceThreads : pc[u] = "unborn"

\* C20: the write-back of a category is atomic for a retrieval that loads the
\* category meanwhile: what _load_memories returns is what it returns for the
\* whole old file or for the whole new file, never for an empty or partial one.
WriteBackAtomic ==
    pc[Reader] = "loaded" =>
       LET old == loc[TheRun].files0
           new == IF pc[TheRun] = "flush"
                  THEN [files EXCEPT ![goals] = loc[TheRun].pending]
                  ELSE files
       IN  loc[Reader].memories \in
              {_load_memories(old, << goals >>), _load_memories(new, << goals >>)}

\* C21: when stop() returns because there was nothing to join or because the
\* join ended, and not because the join timed out, no run is in flight, be it
\* of a tick or of force_run; and once stop() has returned no tick of the
\* stopped loop enters a run.
StopWaits ==
    [][/\ (pc'[Stopper] # pc[Stopper] /\ pc'[Stopper] \in {"returned", "joined"})
             => \A t \in Threads : pc'[t] \notin InBody
       /\ \A t \in LoopThreads :
             (/\ pc[Stopper] \in {"returned", "joined", "timed_out"}
              /\ ~running /\ ~running')
             => ~(pc[t] # "fetch" /\ pc'[t] = "fetch")]_vars

\* C26: while the scheduler is running at most one poll loop thread is alive,
\* whatever calls of start() and stop() were made, a start() after a stop() that
\* has returned included.
OneLoop ==
    running => Cardinality({t \in LoopThreads : pc[t] \notin {"unborn", "exited"}}) <= 1

\* C22: a run that fetches no unprocessed message returns at once: it goes from
\* the fetch to the release of the lock without a call of the oracle, and
\* neither step changes a file, a message or the log; no row of the log
\* counts zero messages.
EmptyRunNoEffect ==
    /\ [][\A t \in Threads :
             /\ (/\ pc[t] = "fetch" /\ pc'[t] # "fetch"
                 /\ get_unprocessed_messages(messages, BatchLimit) = << >>)
                => /\ pc'[t] = "release"
                   /\ loc'[t].batch = << >>
                   /\ UNCHANGED << files, messages, reflection_log, last_run >>
             /\ (pc[t] = "release" /\ pc'[t] # "release" /\ loc[t].batch = << >>)
                => /\ pc'[t] = Return(t)
                   /\ lock' = NoThread
                   /\ UNCHANGED << files, messages, reflection_log, last_run >>]_vars
    /\ [](\A i \in 1..Len(reflection_log) : reflection_log[i].messages_processed > 0)

\* A tick found messages to process and its run, which had to wait for the
\* lock, fetched none: a forced run has processed them meanwhile.
EmptyRunWitness ==
    \E t \in LoopThreads :
        /\ pc[t] = "release"
        /\ loc[t].batch = << >>
        /\ get_unprocessed_count(messages) = 0
        /\ history # << >>

\* C23: the row a completed run adds to the log names, as last processed
\* message, the greatest id of the batch the run fetched, whatever timestamps
\* the messages carry.
LastIdGreatest ==
    \A i \in 1..Len(history) :
        \A j \in 1..Len(history[i].logged) :
            history[i].logged[j].last_processed_id = MaxOf(Range(history[i].batch))

\* C24: a run that has acquired the lock ends and releases it, even when the
\* oracle does not answer: its call is bounded by a timeout.
OracleBounded ==
    (lock # NoThread) ~> (lock = NoThread)

FactsAnnotated ==
    [][\A t \in Threads :
          pc[t] = "merge_write" /\ pc'[t] # "merge_write" /\ pc'[t] # "raise" =>
             LET category   == loc[t].extracted[loc[t].idx].key
                 before     == Range(AllValues(read_category(files[category])))
                 after      == Range(AllValues(read_category(files'[category])))
                 candidates == {x.v : x \in Range(AllValues(loc[t].extracted[loc[t].idx].val))}
                 Marked(c)  == IF StartsWith(c, FactMarker) THEN c ELSE FactMarker \o c
                 date       == << " ", "(" >> \o StrfDate(now) \o << ")" >>
             IN  \A g \in after \ before :
                    /\ StartsWith(g, FactMarker)
                    /\ \E c \in candidates :
                          IF RemoveParens(c) # c THEN g = Marked(c)
                          ELSE g = Marked(c) \o date /\ ~Contains(c, "(")]_vars

\* C27: when a merge ends, by its write or by an exception, every fact the
\* category held before is still in it, and a merge that added no fact leaves the
\* (subcategory, fact) pairs of the category as they were.
FactsKept ==
    [][\A t \in Threads :
          (/\ pc[t] \in {"flush", "raise"}
           /\ pc'[t] \notin {"flush", "raise"})
          => LET old == read_category(loc[t].files0[goals])
                 new == read_category(files'[goals])
             IN  /\ Range(AllValues(old)) \subseteq Range(AllValues(new))
                 /\ loc[t].added = 0 => SamePairs(old, new)]_vars

\* C28: after one or two calls of process that began on the title-only files, no
\* category holds two facts whose normalized texts are equal.
NoDuplicateFacts ==
    \A t \in Threads :
        LET fresh == [c \in CategorySet |-> InitialFile(c)]
            first == {process(fresh, loc[t].extracted, StrfDate(i)).files : i \in Instants}
        IN  (/\ pc[t] = "process"
             /\ \/ loc[t].calls = 1 /\ loc[t].files0 = fresh
                \/ loc[t].calls = 2 /\ loc[t].files0 \in first)
            => \A c \in CategorySet :
                  LET fs == AllValues(read_category(files[c]))
                  IN  \A i, j \in 1..Len(fs) : Clean(fs[i]) = Clean(fs[j]) => i = j

\* C30: when a run raises a storage error after it wrote some categories of its
\* extraction, the ledger is as it was and the files written keep their new facts;
\* process applied again to the files the failure left, with the same extraction
\* and no failure, leaves the files that one call of process without a failure
\* leaves from the files of the fetch.
RerunConverges ==
    [][\A t \in Threads :
          (/\ pc[t] \in {"merge_read", "merge_write"}
           /\ pc'[t] = "raise"
           /\ loc'[t].cause = "storage"
           /\ loc[t].idx > 1)
          => LET once  == process(loc[t].files0, loc[t].extracted, StrfDate(now))
                 again == process(files', loc[t].extracted, StrfDate(now))
             IN  /\ messages' = messages
                 /\ loc'[t].tx_marked = {}
                 /\ \A i \in 1..(loc[t].idx - 1) :
                       files'[loc[t].extracted[i].key] = once.files[loc[t].extracted[i].key]
                 /\ again.files = once.files]_vars

====
